---- MODULE Spec2Model ----
(***************************************************************************)
(* State-machine model of dirty_cat.PretrainedFastText                    *)
(* (src/dirty_cat/pretrained_fastText.py): one embedder object, the       *)
(* storage directory bin_dir it reads and writes, and the outcome of the  *)
(* last call made on it.  bin_dir is taken to be an absolute path, so the *)
(* chdir/chdir-back pairs of download_model and save_model are not        *)
(* tracked.  The fasttext package is an external collaborator: a model is *)
(* known by its language and its output dimension.                        *)
(***************************************************************************)
EXTENDS Integers, Sequences, FiniteSets

(* ------------------------------ bounds -------------------------------- *)
\* longest input batch handed to transform
MaxLen == 2
\* widest 2-D input handed to transform
MaxCols == 2

(* ------------------------- program constants -------------------------- *)
\* dimension of the original fastText models (lines 61, 96)
DefaultDim == 300

\* values of n_components the callers ask for (constructor and reduce_model)
Dims == {1, 50, 300, 400}
Languages == {"en"}

(* --------------------------- file names ------------------------------- *)
\* file_name=None
NoName == [prefix |-> "", language |-> "", dim |-> 0, ext |-> ""]
\* f"cc.{language}.{n_components}.bin"
CcName(lang, n) == [prefix |-> "cc", language |-> lang, dim |-> n, ext |-> "bin"]
\* a file name of the caller's own, outside the cc.<language>.<dim>.bin scheme
CustomName == [prefix |-> "my", language |-> "", dim |-> 0, ext |-> "bin"]
FileNames == {CcName(l, d) : l \in Languages, d \in Dims} \cup {CustomName}

(* ----------------------------- models --------------------------------- *)
\* no file at a path / no attribute ft_model on the object
NoModel == [language |-> "", dim |-> 0]
\* the pretrained model fastText publishes for a language
Pretrained(lang) == [language |-> lang, dim |-> DefaultDim]

\* fasttext.load_model(path): the model stored in the file
FtLoad(fs, path) == fs[path]
IsFile(fs, path) == fs[path] # NoModel

\* fasttext.util.reduce_model(ft_model, target_dim): PCA of the model's
\* matrices onto min(target_dim, dim) columns, in place
FtReduce(m, target) ==
    [m EXCEPT !.dim = IF target < m.dim THEN target ELSE m.dim]

(* ----------------------------- errors --------------------------------- *)
Ok == "ok"
FileNotFound == "FileNotFoundError: model file doesn't exist"
InvalidReduction == "AssertionError: Cannot expand embedding size"
ModelNotLoaded == "AssertionError: The fastText model hasn't been loaded"
UnsupportedShape == "AssertionError: shape of input array is not supported"
NonStringInput == "AssertionError: Input data is not string"
IndexErr == "IndexError: index 0 is out of bounds"
NoFtModelAttr == "AttributeError: object has no attribute 'ft_model'"
BroadcastErr == "ValueError: could not broadcast input array"
DownloadFailed == "URLError: download failed"

VARIABLES
    files,          \* bin_dir: file name -> model stored there, or NoModel
    n_components,   \* self.n_components
    language,       \* self.language
    file_path,      \* self.file_path (the name inside bin_dir)
    ft_model,       \* self.ft_model, NoModel while the attribute is missing
    op,             \* the last call: name and arguments
    err,            \* how the last call ended: Ok or the exception raised
    err_path,       \* the path the last call's FileNotFoundError names
    loaded_from,    \* the path the last call handed to fasttext.load_model
    ext_reduce,     \* targets the last call handed to fasttext.util.reduce_model
    ret,            \* what the last call returned
    calls,          \* strings the last call handed to get_sentence_vector
    X_out           \* the matrix the last call returned (a sequence of rows)

vars == <<files, n_components, language, file_path, ft_model,
          op, err, err_path, loaded_from, ext_reduce, ret, calls, X_out>>

(* --------------------------- load_model ------------------------------- *)
\* load_model with the two file checks in the other order
LoadOutcomeFallbackFirst(fs, path, lang, n, old) ==
    LET file_path_300 == CcName(lang, DefaultDim) IN
    IF IsFile(fs, file_path_300)
    THEN [model |-> FtReduce(FtLoad(fs, file_path_300), n), err |-> Ok,
          err_path |-> NoName, loaded_from |-> file_path_300,
          ext_reduce |-> <<n>>]
    ELSE IF IsFile(fs, path)
    THEN [model |-> FtLoad(fs, path), err |-> Ok, err_path |-> NoName,
          loaded_from |-> path, ext_reduce |-> <<>>]
    ELSE [model |-> old, err |-> FileNotFound, err_path |-> file_path_300,
          loaded_from |-> NoName, ext_reduce |-> <<>>]

\* PretrainedFastText.load_model: outcome of the three-way branch on a
\* directory fs, for an object with the given file_path, language,
\* n_components and current handle
LoadOutcome(fs, path, lang, n, old) ==
    LET file_path_300 == CcName(lang, DefaultDim) IN
    IF IsFile(fs, path)
    THEN [model |-> FtLoad(fs, path), err |-> Ok, err_path |-> NoName,
          loaded_from |-> path, ext_reduce |-> <<>>]
    ELSE IF IsFile(fs, file_path_300)
    THEN [model |-> FtReduce(FtLoad(fs, file_path_300), n), err |-> Ok,
          err_path |-> NoName, loaded_from |-> file_path_300,
          ext_reduce |-> <<n>>]
    ELSE [model |-> old, err |-> FileNotFound, err_path |-> file_path_300,
          loaded_from |-> NoName, ext_reduce |-> <<>>]

\* the directories a run may start from: official downloads, reduced models
\* saved under their default names, and a caller-named copy
InitDirs ==
    LET Empty == [f \in FileNames |-> NoModel] IN
    { Empty,
      [Empty EXCEPT ![CcName("en", DefaultDim)] = Pretrained("en")],
      [Empty EXCEPT ![CcName("en", DefaultDim)] = Pretrained("en"),
                    ![CcName("en", 50)] = FtReduce(Pretrained("en"), 50)],
      [Empty EXCEPT ![CcName("en", DefaultDim)] = Pretrained("en"),
                    ![CustomName] = FtReduce(Pretrained("en"), 50)] }

NoOp == [name |-> "none", n |-> 0, language |-> "", file_name |-> NoName,
         X |-> [ndim |-> 0, shape |-> <<>>, data |-> <<>>]]

Init ==
    /\ files \in InitDirs
    /\ n_components = 0
    /\ language = ""
    /\ file_path = NoName
    /\ ft_model = NoModel
    /\ op = NoOp
    /\ err = Ok
    /\ err_path = NoName
    /\ loaded_from = NoName
    /\ ext_reduce = <<>>
    /\ ret = "none"
    /\ calls = <<>>
    /\ X_out = <<>>

\* the object exists: __init__ has run on it
Allocated == op.name # "none"
HasFtModel == ft_model # NoModel

(* ---------------------------- __init__ -------------------------------- *)
\* n_components if n_components < 300 else 300
Clamp(n) == IF n < DefaultDim THEN n ELSE DefaultDim

\* file_name defaults to f"cc.{language}.{n_components}.bin"
ResolveFileName(lang, n, file_name) ==
    IF file_name = NoName THEN CcName(lang, n) ELSE file_name

\* "If given, n_components must be set appropriately to the embedding size
\* of the model" (docstring of file_name): the caller's obligation
FileNameContract(fs, n, file_name) ==
    file_name # NoName /\ IsFile(fs, file_name) => fs[file_name].dim = Clamp(n)

\* PretrainedFastText(n_components, language, bin_dir, file_name) on a fresh
\* object.  When load_model raises, the constructor call returns nothing,
\* and the object keeps the attributes set so far and has no ft_model: the
\* state the error message (lines 105-109, "load it manually with
\* self.load_model()") and the assertion of fit are written for
Construct(n, lang, file_name) ==
    /\ FileNameContract(files, n, file_name)
    /\ \E out \in {LoadOutcome(files, ResolveFileName(lang, n, file_name),
                               lang, Clamp(n), NoModel)} :
          /\ n_components' = Clamp(n)
          /\ language' = lang
          /\ file_path' = ResolveFileName(lang, n, file_name)
          /\ ft_model' = out.model
          /\ err' = out.err
          /\ err_path' = out.err_path
          /\ loaded_from' = out.loaded_from
          /\ ext_reduce' = out.ext_reduce
          /\ ret' = IF out.err = Ok THEN "embedder" ELSE "none"
    /\ op' = [NoOp EXCEPT !.name = "__init__", !.n = n, !.language = lang,
                          !.file_name = file_name]
    /\ calls' = <<>>
    /\ X_out' = <<>>
    /\ UNCHANGED files

\* what a call that loads nothing, reduces nothing and embeds nothing leaves
\* in the record of the last call
Quiet ==
    /\ err_path' = NoName
    /\ loaded_from' = NoName
    /\ calls' = <<>>
    /\ X_out' = <<>>

(* -------------------------- download_model ---------------------------- *)
\* fasttext.util.download_model(language, if_exists='ignore') run inside
\* bin_dir: cc.<language>.300.bin appears unless it is already there; the
\* download may fail
download_model(succeeds) ==
    /\ Allocated
    /\ IF succeeds
       THEN /\ files' = IF IsFile(files, CcName(language, DefaultDim))
                        THEN files
                        ELSE [files EXCEPT ![CcName(language, DefaultDim)] =
                                               Pretrained(language)]
            /\ err' = Ok
       ELSE /\ files' = files
            /\ err' = DownloadFailed
    /\ op' = [NoOp EXCEPT !.name = "download_model"]
    /\ ext_reduce' = <<>>
    /\ ret' = "none"
    /\ Quiet
    /\ UNCHANGED <<n_components, language, file_path, ft_model>>

(* ---------------------------- load_model ------------------------------ *)
\* self.load_model() called again on the object
load_model ==
    /\ Allocated
    /\ \E out \in {LoadOutcome(files, file_path, language, n_components,
                               ft_model)} :
          /\ ft_model' = out.model
          /\ err' = out.err
          /\ err_path' = out.err_path
          /\ loaded_from' = out.loaded_from
          /\ ext_reduce' = out.ext_reduce
    /\ op' = [NoOp EXCEPT !.name = "load_model"]
    /\ ret' = "none"
    /\ calls' = <<>>
    /\ X_out' = <<>>
    /\ UNCHANGED <<files, n_components, language, file_path>>

(* ---------------------------- save_model ------------------------------ *)
\* file_name defaults to f"cc.{self.language}.{self.n_components}.bin"
SaveName(file_name) ==
    IF file_name = NoName THEN CcName(language, n_components) ELSE file_name

\* self.save_model(file_name): write the current model into bin_dir under
\* the resolved name; without a model the attribute lookup raises
save_model(file_name) ==
    /\ Allocated
    /\ IF HasFtModel
       THEN /\ files' = [files EXCEPT ![SaveName(file_name)] = ft_model]
            /\ err' = Ok
       ELSE /\ files' = files
            /\ err' = NoFtModelAttr
    /\ op' = [NoOp EXCEPT !.name = "save_model", !.file_name = file_name]
    /\ ext_reduce' = <<>>
    /\ ret' = "none"
    /\ Quiet
    /\ UNCHANGED <<n_components, language, file_path, ft_model>>

(* --------------------------- reduce_model ----------------------------- *)
\* the assertion with <= for <
ReduceAllowedOrEqual(k) == k <= n_components

\* assert n_components < self.n_components
ReduceAllowed(k) == k < n_components

\* reduce_model with the assignment made before the assertion
reduce_model_AssignFirst(k) ==
    /\ Allocated
    /\ n_components' = k
    /\ IF ~ReduceAllowed(k)
       THEN /\ err' = InvalidReduction
            /\ ext_reduce' = <<>>
            /\ ft_model' = ft_model
       ELSE IF HasFtModel
            THEN /\ ft_model' = FtReduce(ft_model, k)
                 /\ ext_reduce' = <<k>>
                 /\ err' = Ok
            ELSE /\ ft_model' = ft_model
                 /\ ext_reduce' = <<>>
                 /\ err' = NoFtModelAttr
    /\ op' = [NoOp EXCEPT !.name = "reduce_model", !.n = k]
    /\ ret' = "none"
    /\ Quiet
    /\ UNCHANGED <<files, language, file_path>>

\* self.reduce_model(k): the assertion, then the assignment, then the
\* external reduction of self.ft_model
reduce_model(k) ==
    /\ Allocated
    /\ IF ~ReduceAllowed(k)
       THEN /\ err' = InvalidReduction
            /\ ext_reduce' = <<>>
            /\ UNCHANGED <<n_components, ft_model>>
       ELSE /\ n_components' = k
            /\ IF HasFtModel
               THEN /\ ft_model' = FtReduce(ft_model, k)
                    /\ ext_reduce' = <<k>>
                    /\ err' = Ok
               ELSE /\ ft_model' = ft_model
                    /\ ext_reduce' = <<>>
                    /\ err' = NoFtModelAttr
    /\ op' = [NoOp EXCEPT !.name = "reduce_model", !.n = k]
    /\ ret' = "none"
    /\ Quiet
    /\ UNCHANGED <<files, language, file_path>>

(* -------------------------------- fit --------------------------------- *)
\* self.fit(X, y): assert hasattr(self, 'ft_model'); return self
fit ==
    /\ Allocated
    /\ err' = IF HasFtModel THEN Ok ELSE ModelNotLoaded
    /\ ret' = IF HasFtModel THEN "self" ELSE "none"
    /\ op' = [NoOp EXCEPT !.name = "fit"]
    /\ ext_reduce' = <<>>
    /\ Quiet
    /\ UNCHANGED <<files, n_components, language, file_path, ft_model>>

(* ----------------------------- transform ------------------------------ *)
\* the strings a batch is made of, and the one non-string value
Categories == {"cat", "dog"}
Str(s) == [type |-> "str", val |-> s]
Int7 == [type |-> "int", val |-> "7"]

\* the order of Python strings, which np.unique sorts by
StringOrder == <<"7", "cat", "dog">>

\* sequences over S of length 0..n
SeqsUpTo(S, n) == UNION {[1..k -> S] : k \in 0..n}

\* what callers hand to transform: its rank, its shape and its elements in
\* row-major order
Array(ndim, shape, data) == [ndim |-> ndim, shape |-> shape, data |-> data]
StrBatches == SeqsUpTo({Str(c) : c \in Categories}, MaxLen)
Inputs ==
    {Array(1, <<Len(d)>>, d) : d \in StrBatches}
    \cup UNION {{Array(2, <<Len(d) \div c, c>>, d) :
                   d \in {b \in StrBatches : Len(b) % c = 0}} : c \in 1..MaxCols}
    \cup {Array(0, <<>>, d) : d \in {b \in StrBatches : Len(b) = 1}}
    \cup {Array(3, <<Len(d), 1, 1>>, d) : d \in {b \in StrBatches : Len(b) = 1}}
    \cup {Array(1, <<Len(d)>>, d) :
            d \in {<<Int7>>, <<Int7, Str("cat")>>, <<Str("cat"), Int7>>}}

\* np.asarray(X): one dtype for the whole array; numbers next to strings
\* become their decimal strings
AsArray(X) ==
    LET dtype == IF X.data = <<>> THEN "float64"
                 ELSE IF \E i \in 1..Len(X.data) : X.data[i].type = "str"
                      THEN "str" ELSE "int"
    IN [ndim |-> X.ndim, shape |-> X.shape, dtype |-> dtype,
        data |-> [i \in 1..Len(X.data) |->
                     IF dtype = "str" THEN Str(X.data[i].val) ELSE X.data[i]]]

\* the check with the column count forgotten
ShapeSupportedAnyColumns(A) == A.ndim = 1 \/ A.ndim = 2

\* X.ndim == 1 or (X.ndim == 2 and X.shape[1] == 1)
ShapeSupported(A) == A.ndim = 1 \/ (A.ndim = 2 /\ A.shape[2] = 1)

\* X[:, 0] of a 2-D array, the array itself when it is 1-D
FirstColumn(A) ==
    IF A.ndim = 2
    THEN [i \in 1..A.shape[1] |-> A.data[(i - 1) * A.shape[2] + 1]]
    ELSE A.data

\* no deduplication: every position counts as a value of its own
UniqueKeepingDuplicates(X) == X

\* np.unique(X, return_inverse=True): the distinct strings in sorted order,
\* and for each position the index of its string among them
Unique(X) ==
    LET Present(s) == \E i \in 1..Len(X) : X[i] = s
    IN SelectSeq(StringOrder, Present)
Inverse(X) ==
    LET unq == Unique(X)
    IN [i \in 1..Len(X) |-> CHOOSE k \in 1..Len(unq) : unq[k] = X[i]]

\* ft_model.get_sentence_vector(x): the provider is opaque, so its vector
\* is known by the model and the string it was asked for, and by its width
\* (the model's dimension); vectors of different strings or models differ
get_sentence_vector(m, x) ==
    [model |-> m, text |-> x, width |-> m.dim, repeated |-> FALSE]

\* unq_X_out[idx] = v: numpy copies a vector of the row's width, repeats a
\* vector of width 1 across the row, and rejects any other width
AssignRow(width, v) ==
    IF v.width = width THEN [ok |-> TRUE, row |-> v]
    ELSE IF v.width = 1
         THEN [ok |-> TRUE, row |-> [v EXCEPT !.width = width, !.repeated = TRUE]]
    ELSE [ok |-> FALSE, row |-> v]

\* for idx, x in enumerate(unq_X): unq_X_out[idx] = get_sentence_vector(x)
RECURSIVE EmbedLoop(_, _, _)
EmbedLoop(unq, idx, acc) ==
    IF idx > Len(unq) THEN acc
    ELSE IF ~HasFtModel THEN [acc EXCEPT !.err = NoFtModelAttr]
    ELSE LET v == get_sentence_vector(ft_model, unq[idx])
             called == Append(acc.calls, unq[idx])
             a == AssignRow(n_components, v)
         IN IF a.ok
            THEN EmbedLoop(unq, idx + 1,
                           [acc EXCEPT !.calls = called,
                                       !.rows = Append(acc.rows, a.row)])
            ELSE [acc EXCEPT !.calls = called, !.err = BroadcastErr]

\* the gather with the inverse mapping forgotten: row i from scratch row i
GatherByPosition(unq_X_out, lookup) ==
    [i \in 1..Len(lookup) |->
        unq_X_out[IF i <= Len(unq_X_out) THEN i ELSE Len(unq_X_out)]]

\* X_out = unq_X_out[lookup]
Gather(unq_X_out, lookup) == [i \in 1..Len(lookup) |-> unq_X_out[lookup[i]]]

\* the whole of transform on the current object: how it ends, the provider
\* calls it made, and the matrix it returns
TransformOutcome(X) ==
    LET A == AsArray(X)
        Failed(e) == [err |-> e, calls |-> <<>>, X_out |-> <<>>]
    IN IF ~ShapeSupported(A) THEN Failed(UnsupportedShape)
       ELSE LET X1 == FirstColumn(A)
            IN IF X1 = <<>> THEN Failed(IndexErr)
               ELSE IF A.dtype # "str" THEN Failed(NonStringInput)
               ELSE LET strs == [i \in 1..Len(X1) |-> X1[i].val]
                        unq_X == Unique(strs)
                        lookup == Inverse(strs)
                        done == EmbedLoop(unq_X, 1,
                                    [rows |-> <<>>, calls |-> <<>>, err |-> Ok])
                    IN IF done.err # Ok
                       THEN [err |-> done.err, calls |-> done.calls,
                             X_out |-> <<>>]
                       ELSE [err |-> Ok, calls |-> done.calls,
                             X_out |-> Gather(done.rows, lookup)]

\* self.transform(X)
transform(X) ==
    /\ Allocated
    /\ \E out \in {TransformOutcome(X)} :
          /\ err' = out.err
          /\ calls' = out.calls
          /\ X_out' = out.X_out
          /\ ret' = IF out.err = Ok THEN "matrix" ELSE "none"
    /\ op' = [NoOp EXCEPT !.name = "transform", !.X = X]
    /\ err_path' = NoName
    /\ loaded_from' = NoName
    /\ ext_reduce' = <<>>
    /\ UNCHANGED <<files, n_components, language, file_path, ft_model>>

Next ==
    \/ \E n \in Dims, lang \in Languages, fname \in {NoName, CustomName} :
          Construct(n, lang, fname)
    \/ \E succeeds \in BOOLEAN : download_model(succeeds)
    \/ load_model
    \/ \E fname \in {NoName, CustomName} : save_model(fname)
    \/ \E k \in Dims : reduce_model(k)
    \/ fit
    \/ \E X \in Inputs : transform(X)

Spec == Init /\ [][Next]_vars

(* ====================================================================== *)
(*                              properties                                *)
(* ====================================================================== *)

\* the last call was transform(X)
IsTransform == op.name = "transform"
\* the strings of the batch the last transform was given, in order
BatchStrings == [i \in 1..Len(op.X.data) |-> op.X.data[i].val]
\* the last transform was given a batch of strings, 1-D or one column wide
StringBatch ==
    /\ op.X.ndim = 1 \/ (op.X.ndim = 2 /\ op.X.shape[2] = 1)
    /\ \A i \in 1..Len(op.X.data) : op.X.data[i].type = "str"
\* the distinct strings of the batch
DistinctStrings == {BatchStrings[i] : i \in 1..Len(BatchStrings)}

\* C1: deduplication equivalence.  Whenever transform accepts a batch of
\* strings, row i of the matrix it returns is the provider's vector for the
\* i-th string, for every position i: the matrix is the one that one
\* provider call per row would have built.
C1_DedupEquivalence ==
    (IsTransform /\ err = Ok /\ StringBatch) =>
        /\ Len(X_out) = Len(BatchStrings)
        /\ \A i \in 1..Len(BatchStrings) :
              X_out[i] = get_sentence_vector(ft_model, BatchStrings[i])

\* a batch with a repeated string, listed against the sorted order, was
\* transformed
C1_Witness ==
    /\ IsTransform /\ err = Ok
    /\ BatchStrings \in {<<"dog", "cat">>, <<"dog", "dog">>}
    /\ Len(X_out) = 2

\* C2: call count.  A transform call never hands the same string to the
\* provider twice and only hands it strings of the batch; a call that
\* returns has handed it every distinct string of the batch exactly once,
\* |distinct values| calls in all.
C2_CallCount ==
    IsTransform =>
        /\ \A i, j \in 1..Len(calls) : calls[i] = calls[j] => i = j
        /\ \A i \in 1..Len(calls) : calls[i] \in DistinctStrings
        /\ (err = Ok /\ StringBatch) =>
              /\ {calls[i] : i \in 1..Len(calls)} = DistinctStrings
              /\ Len(calls) = Cardinality(DistinctStrings)

\* a batch of two equal strings was transformed with one provider call
C2_Witness ==
    /\ IsTransform /\ err = Ok
    /\ Len(BatchStrings) = 2 /\ BatchStrings[1] = BatchStrings[2]
    /\ Len(calls) = 1

\* C3: shape contract.  On a loaded embedder, transform of any batch of
\* strings, of any length, 1-D or one column wide, returns a matrix with one
\* row per sample and n_components columns.
C3_ShapeContract ==
    (IsTransform /\ StringBatch /\ HasFtModel) =>
        /\ err = Ok
        /\ ret = "matrix"
        /\ Len(X_out) = op.X.shape[1]
        /\ \A i \in 1..Len(X_out) : X_out[i].width = n_components

\* C8: shape validation.  An input that is neither 1-D nor 2-D with exactly
\* one column is rejected with the shape error before any provider call; an
\* input of shape (n, 1) is never rejected for its shape and ends exactly as
\* transform of the 1-D input (n,) with the same values does (same matrix,
\* same provider calls, same outcome), which is success when the batch is a
\* non-empty batch of strings and the model's width is n_components.
C8_ShapeValidation ==
    IsTransform =>
        /\ ~(op.X.ndim = 1 \/ (op.X.ndim = 2 /\ op.X.shape[2] = 1)) =>
              /\ err = UnsupportedShape
              /\ calls = <<>>
              /\ ret = "none"
        /\ (op.X.ndim = 2 /\ op.X.shape[2] = 1) =>
              LET flat == TransformOutcome(
                              Array(1, <<op.X.shape[1]>>, op.X.data))
              IN /\ err # UnsupportedShape
                 /\ err = flat.err
                 /\ X_out = flat.X_out
                 /\ calls = flat.calls
                 /\ (StringBatch /\ op.X.data # <<>> /\ HasFtModel
                       /\ ft_model.dim = n_components) => err = Ok

\* a batch of shape (2, 1) was transformed
C8_Witness ==
    /\ IsTransform /\ err = Ok
    /\ op.X.ndim = 2 /\ op.X.shape = <<2, 1>>
    /\ Len(X_out) = 2

\* an input of shape (1, 2) was rejected
C8_Rejected ==
    /\ IsTransform /\ err = UnsupportedShape
    /\ op.X.ndim = 2 /\ op.X.shape = <<1, 2>>

\* one step of the C4 property
C4_Step ==
    /\ (op'.name = "reduce_model" /\ HasFtModel) =>
          /\ (err' = Ok) <=> (op'.n < n_components)
          /\ (err' = Ok) =>
                /\ n_components' = op'.n
                /\ ft_model'.dim = op'.n
                /\ ext_reduce' = <<op'.n>>
          /\ n_components' <= n_components
    /\ (Allocated /\ n_components' # n_components) =>
          op'.name \in {"reduce_model", "__init__"}
    /\ (op'.name = "transform" /\ err' = Ok) =>
          \A i \in 1..Len(X_out') : X_out'[i].width = n_components'

\* C4: reduction monotonicity.  On a loaded embedder reduce_model(k)
\* succeeds if and only if k < n_components; after success the recorded
\* n_components and the model's width are k; reduce_model never raises
\* n_components, only reduce_model (or constructing anew) changes it, and
\* every matrix transform returns has rows of the recorded width, hence of
\* width k after a successful reduce_model(k).
C4_ReductionMonotonicity == [][C4_Step]_vars

\* an embedder constructed for 50 components was reduced to 1 component
C4_Witness ==
    /\ op.name = "reduce_model" /\ err = Ok /\ op.n = 1
    /\ n_components = 1 /\ ft_model.dim = 1
    /\ file_path = CcName("en", 50)

\* one step of the C5 property
C5_Step ==
    op'.name = "__init__" =>
        LET requested == IF op'.file_name = NoName
                         THEN CcName(op'.language, op'.n)
                         ELSE op'.file_name
            fallback == CcName(op'.language, DefaultDim)
        IN /\ files' = files
           /\ files[requested] # NoModel =>
                 /\ err' = Ok /\ ret' = "embedder"
                 /\ loaded_from' = requested
                 /\ ft_model' = files[requested]
                 /\ ext_reduce' = <<>>
           /\ (files[requested] = NoModel /\ files[fallback] # NoModel) =>
                 /\ err' = Ok /\ ret' = "embedder"
                 /\ loaded_from' = fallback
                 /\ ext_reduce' = <<n_components'>>
                 /\ ft_model'.dim = n_components'
           /\ (files[requested] = NoModel /\ files[fallback] = NoModel) =>
                 /\ err' = FileNotFound
                 /\ err_path' = fallback
                 /\ ret' = "none"
                 /\ ft_model' = NoModel

\* C5: load policy at construction, first match wins.  (1) If the file the
\* request names (cc.<language>.<n_components>.bin, or the explicit
\* file_name) exists, it is loaded as stored and no reduction is made.
\* (2) Otherwise, if cc.<language>.300.bin exists, it is loaded and reduced
\* in memory to n_components, the embedder's model is n_components wide, and
\* the directory is unchanged.  (3) Otherwise construction raises
\* FileNotFoundError naming cc.<language>.300.bin, returns no embedder and
\* loads no model.
C5_LoadPolicy == [][C5_Step]_vars

\* construction fell back on the 300-dimensional file and reduced it to 50
C5_Witness ==
    /\ op.name = "__init__" /\ op.n = 50 /\ err = Ok
    /\ loaded_from = CcName("en", DefaultDim)
    /\ ext_reduce = <<50>>
    /\ files[CcName("en", 50)] = NoModel

\* C6: clamping.  Constructing with a requested n_components >= 300 and no
\* explicit file_name is constructing with 300: the recorded n_components is
\* 300, the file resolved is cc.<language>.300.bin, and it is loaded at 300
\* dimensions with no reduction requested.
C6_Clamping ==
    (op.name = "__init__" /\ op.n >= DefaultDim /\ op.file_name = NoName
        /\ err = Ok) =>
        /\ n_components = DefaultDim
        /\ file_path = CcName(op.language, DefaultDim)
        /\ loaded_from = CcName(op.language, DefaultDim)
        /\ ft_model.dim = DefaultDim
        /\ ext_reduce = <<>>

\* one step of the C7 property
C7_Step ==
    (op'.name = "reduce_model" /\ Allocated /\ op'.n >= n_components) =>
        /\ err' = InvalidReduction
        /\ n_components' = n_components
        /\ ft_model' = ft_model
        /\ ext_reduce' = <<>>
        /\ files' = files

\* C7: an invalid reduction changes nothing.  reduce_model(k) with
\* k >= n_components fails with the invalid-reduction error, leaves the
\* recorded n_components and the loaded model as they were, and never calls
\* the external reduction.
C7_InvalidReductionKeepsState == [][C7_Step]_vars

\* reduce_model(300) was refused on a loaded embedder of 50 components
C7_Witness ==
    /\ op.name = "reduce_model" /\ err = InvalidReduction
    /\ op.n = DefaultDim /\ n_components = 50 /\ ft_model.dim = 50

\* C9: model-not-loaded handling.  On an embedder without a model handle,
\* fit fails with the model-not-loaded error and so does transform (here:
\* of a non-empty batch of strings of a supported shape); on a loaded
\* embedder fit succeeds and returns the embedder itself.
C9_ModelNotLoaded ==
    /\ (op.name = "fit" /\ ~HasFtModel) => err = ModelNotLoaded
    /\ (IsTransform /\ ~HasFtModel /\ StringBatch /\ op.X.data # <<>>) =>
          err = ModelNotLoaded
    /\ (op.name = "fit" /\ HasFtModel) => (err = Ok /\ ret = "self")

\* the part of C9 about fit alone: model-not-loaded without a handle, and
\* otherwise self returned with the embedder and the directory untouched
C9_FitStep ==
    op'.name = "fit" =>
        /\ ~HasFtModel => err' = ModelNotLoaded
        /\ HasFtModel => (err' = Ok /\ ret' = "self")
        /\ UNCHANGED <<files, n_components, language, file_path, ft_model>>
C9_FitAlone == [][C9_FitStep]_vars

\* C10: dimension consistency.  Whenever the embedder holds a model, the
\* recorded n_components is the model's output dimension.
C10_DimensionConsistency == HasFtModel => ft_model.dim = n_components
====
